---- MODULE Spec2Model ----
(***************************************************************************)
(* CompliancePlugin.Eval of plugin-aws-networking-security, in its three    *)
(* revisions:                                                               *)
(*   "main"     src/main.go            one CreateResult per (group, policy) *)
(*   "part_000" src/unnamed/part_000   one CreateEvidence per group         *)
(*   "part_001" src/unnamed/part_001   CreateObservations + CreateFindings  *)
(*                                     per group                            *)
(* Eval is sequential code; the nondeterminism is the environment: the AWS  *)
(* configuration loader, the EC2 enumeration call, the policy evaluator,    *)
(* the stream-id seeding function and the sink (apiHelper).                 *)
(***************************************************************************)
EXTENDS Integers, Sequences, FiniteSets, TLC

\* ------------------------------------------------------------------ bounds
MaxPairs == 4
MaxVerdicts == 2
MaxViolations == 2
MaxRisks == 2
MaxLinks == 2
MaxFaults == 2

VARIABLES
    cancelled,         \* the caller has raised its cancellation signal
    build,             \* which revision of Eval runs
    pc,                \* position of Eval
    provider,          \* the security groups the provider holds (ids, in order)
    policyPaths,       \* request.GetPolicyPaths()
    securityGroups,    \* the enumerated groups Eval iterates over
    ri, pi,            \* indices of the current group and policy path
    evalStatus,        \* evalStatus
    errAcc,            \* errAcc / accumulatedErrors: the joined error, as a list
    results,           \* what the evaluator returned for the current pair
    assessmentResult,  \* the current pair's assessment result (main.go)
    streamId,          \* the stream id seeded for the current pair (main.go)
    observations,      \* part_001: the current group's observation batch
    findings,          \* part_001: the current group's finding batch
    evidences,         \* part_000: the current group's evidence batch
    nextUuid,          \* number of identifiers uuid.New() has handed out
    now,               \* the wall clock
    startTime,         \* startTime (main.go)
    evalCalls,         \* history: evaluator invocations, in order
    sinkCalls,         \* history: sink invocations, in order
    obsIds,            \* history: ids of the Observations emitted in this run
    notSatisfied,      \* history: a not-satisfied Finding was built in this run
    occurred,          \* history: every error the environment returned, in order
    faults,            \* number of failures injected so far
    retStatus, retErr  \* what Eval returned

vars == <<cancelled, build, pc, provider, policyPaths, securityGroups, ri, pi, evalStatus,
          errAcc, results, assessmentResult, streamId, observations, findings,
          evidences, nextUuid, now, startTime, evalCalls, sinkCalls, obsIds,
          notSatisfied, occurred, faults, retStatus, retErr>>

Builds == {"main", "part_000", "part_001"}

SUCCESS == "SUCCESS"
FAILURE == "FAILURE"
NoStatus == "none"

\* errors.Join(acc, err): nil is the empty list, a joined error lists its causes.
Join(acc, err) == Append(acc, err)

Err(kind, r, p) == [kind |-> kind, ri |-> r, pi |-> p]

\* ------------------------------------------------ the evaluator's verdicts
\* A policy bundle holds one package per result it yields: the i-th result of
\* policy path p carries package <<p, i>>.
Violation(k) == [title |-> <<"title", k>>, description |-> <<"description", k>>,
                 remarks |-> <<"remarks", k>>]

RiskLink(k, j) == [URL |-> <<"url", k, j>>, Text |-> <<"text", k, j>>]

\* Risk entry k carries MaxLinks - k + 1 links (none from k > MaxLinks on).
RiskEntry(k) ==
    [title |-> <<"risk", k>>, description |-> <<"riskdesc", k>>,
     statement |-> <<"statement", k>>,
     links |-> [j \in 1..(IF k <= MaxLinks THEN MaxLinks - k + 1 ELSE 0) |-> RiskLink(k, j)]]

Verdict(pkg, nv, nr) ==
    [package |-> pkg,
     violations |-> [k \in 1..nv |-> Violation(k)],
     risks |-> [k \in 1..nr |-> RiskEntry(k)]]

\* The result lists the evaluator may return for policy path p: n verdicts, the
\* first with no or MaxViolations violations and with no or MaxRisks risks, the
\* following ones with one violation and one risk more each (back to none after
\* the maximum).
ResultList(p, n, nv, nr) ==
    [i \in 1..n |-> Verdict(<<p, i>>, (nv + i - 1) % (MaxViolations + 1),
                                      (nr + i - 1) % (MaxRisks + 1))]

ResultLists(p) ==
    {ResultList(p, n, nv, nr) : n \in 0..MaxVerdicts, nv \in {0, MaxViolations}, nr \in {0, MaxRisks}}

\* ------------------------------------------------------ evidence assembler
\* runner.NewCallableAssessmentResult(), with the title of main.go:87.  "order"
\* records the order of the Add* calls.
NewCallableAssessmentResult ==
    [title |-> "Security Group checks - AWS plugin",
     observations |-> <<>>, findings |-> <<>>, risks |-> <<>>, logs |-> <<>>,
     start |-> -1, end |-> -1, order |-> <<>>]

AddObservation(ar, o) ==
    [ar EXCEPT !.observations = Append(@, o), !.order = Append(@, <<"observation", o.uuid>>)]

AddFinding(ar, f) ==
    [ar EXCEPT !.findings = Append(@, f), !.order = Append(@, <<"finding", f.related>>)]

AddRiskEntry(ar, r) ==
    [ar EXCEPT !.risks = Append(@, r), !.order = Append(@, <<"risk", <<>>>>)]

AddLogEntry(ar, e) == [ar EXCEPT !.logs = Append(@, e)]

\* uuid.New(): the identifier handed out when n identifiers were handed out before.
NewUuid(n) == n + 1

\* Labels that name the first enumerated group instead of the group of the
\* current iteration.
LabelsOfFirstGroup(pkg, sg) ==
    [package |-> pkg, type |-> "aws", service |-> "security-groups",
     security_group_id |-> securityGroups[1]]

\* The label set of every Observation and Finding, main.go:106-111.
Labels(pkg, sg) ==
    [package |-> pkg, type |-> "aws", service |-> "security-groups",
     security_group_id |-> sg]

PassObservation(v, sg, id, t) ==
    [uuid |-> id, title |-> "The plugin succeeded. No compliance issues to report.",
     count |-> 0, collected |-> t, labels |-> Labels(v.package, sg)]

SatisfiedFinding(v, sg) ==
    [title |-> <<"No violations found on", v.package>>,
     description |-> <<"No violations found on the policy", v.package>>,
     remarks |-> <<>>, related |-> <<>>, status |-> "satisfied",
     labels |-> Labels(v.package, sg)]

FailObservation(v, sg, id, t) ==
    [uuid |-> id, title |-> "The plugin found violations for policy",
     count |-> Len(v.violations), collected |-> t, labels |-> Labels(v.package, sg)]

\* NotSatisfiedFinding with a label set of its own, without the service label.
NotSatisfiedFindingOwnLabels(v, violation, sg, observationUuid) ==
    [title |-> violation.title, description |-> violation.description,
     remarks |-> violation.remarks, related |-> <<observationUuid>>,
     status |-> "not-satisfied",
     labels |-> [package |-> v.package, type |-> "aws", security_group_id |-> sg]]

\* main.go:156-178
NotSatisfiedFinding(v, violation, sg, observationUuid) ==
    [title |-> violation.title, description |-> violation.description,
     remarks |-> violation.remarks, related |-> <<observationUuid>>,
     status |-> "not-satisfied", labels |-> Labels(v.package, sg)]

RECURSIVE AddViolationFindings(_, _, _, _, _)
AddViolationFindings(ar, v, sg, observationUuid, k) ==
    IF k > Len(v.violations) THEN ar
    ELSE AddViolationFindings(
             AddFinding(ar, NotSatisfiedFinding(v, v.violations[k], sg, observationUuid)),
             v, sg, observationUuid, k + 1)

\* AddPassArtifacts without the Observation: a verdict without violations is
\* reported by its Finding alone.
AddPassArtifactsFindingOnly(ar, v, sg, id, t) ==
    AddFinding(ar, SatisfiedFinding(v, sg))

\* main.go:93-130
AddPassArtifacts(ar, v, sg, id, t) ==
    AddFinding(AddObservation(ar, PassObservation(v, sg, id, t)), SatisfiedFinding(v, sg))

\* AddFailArtifacts with a second uuid.New() for the Findings' back-reference.
AddFailArtifactsFreshReference(ar, v, sg, id, t) ==
    AddViolationFindings(AddObservation(ar, FailObservation(v, sg, id, t)), v, sg,
                         NewUuid(id), 1)

\* main.go:134-180
AddFailArtifacts(ar, v, sg, id, t) ==
    AddViolationFindings(AddObservation(ar, FailObservation(v, sg, id, t)), v, sg, id, 1)

\* Links with one loop variable shared by all iterations: every `&link.Text`
\* points at the text of the last link.
LinksSharedLoopVariable(risk) ==
    [j \in 1..Len(risk.links) |->
        [href |-> risk.links[j].URL, text |-> risk.links[Len(risk.links)].Text]]

\* main.go:183-189
Links(risk) == [j \in 1..Len(risk.links) |-> [href |-> risk.links[j].URL, text |-> risk.links[j].Text]]

\* main.go:191-197
Risk(risk) ==
    [title |-> risk.title, description |-> risk.description, statement |-> risk.statement,
     props |-> <<>>, links |-> Links(risk)]

RECURSIVE AddRisks(_, _, _)
AddRisks(ar, v, k) ==
    IF k > Len(v.risks) THEN ar
    ELSE AddRisks(AddRiskEntry(ar, Risk(v.risks[k])), v, k + 1)

\* AddVerdict with `>= 0` for `> 0` in the second condition (main.go:134).
AddVerdictBothBranches(ar, v, sg, id, t) ==
    LET a1 == IF Len(v.violations) = 0 THEN AddPassArtifacts(ar, v, sg, id, t) ELSE ar
        a2 == IF Len(v.violations) >= 0 THEN AddFailArtifacts(a1, v, sg, id, t) ELSE a1
    IN  AddRisks(a2, v, 1)

\* One iteration of the loop over results, main.go:89-199; id is the identifier
\* uuid.New() hands out in this iteration.
AddVerdict(ar, v, sg, id, t) ==
    LET a1 == IF Len(v.violations) = 0 THEN AddPassArtifacts(ar, v, sg, id, t) ELSE ar
        a2 == IF Len(v.violations) > 0 THEN AddFailArtifacts(a1, v, sg, id, t) ELSE a1
    IN  AddRisks(a2, v, 1)

\* The loop over results, main.go:89-199, from verdict i on; n identifiers were
\* handed out before the loop.
RECURSIVE AddVerdicts(_, _, _, _, _, _)
AddVerdicts(ar, rs, sg, n, t, i) ==
    IF i > Len(rs) THEN ar
    ELSE AddVerdicts(AddVerdict(ar, rs[i], sg, NewUuid(n + i - 1), t), rs, sg, n, t, i + 1)

\* ------------------------------------------------------- result aggregator
\* StreamSeed without the policy path.
StreamSeedWithoutPolicy(policyPath, sg) ==
    [type |-> "aws", security_group_id |-> sg]

\* The seed of main.go:206-210.
StreamSeed(policyPath, sg) ==
    [type |-> "aws", _policy |-> policyPath, security_group_id |-> sg]

\* sdk.SeededUUID: a name-based identifier, a hash of the seed map and of nothing
\* else; the hash is taken to be collision-free on the seeds of the model.
SeededUUID(seed) == [seeded |-> seed]

\* The label set handed to the sink, main.go:227-232.
ResultLabels(policyPath, sg) ==
    [type |-> "aws", service |-> "security-groups", _policy |-> policyPath,
     security_group_id |-> sg]

\* A log entry that takes both its start and its end from the end time.
LogEntryEndOnly(start, end) ==
    [title |-> "Template check", start |-> end, end |-> end]

\* main.go:218-223
LogEntry(start, end) ==
    [title |-> "Template check", start |-> start, end |-> end]

\* --------------------------------------------------------------- the inputs
\* The provider's groups have distinct ids: 1..m stands for any m distinct ids.
GroupLists == {[i \in 1..m |-> i] : m \in 0..MaxPairs}

\* The request's policy paths: n distinct paths, or the same path n times.
PolicyLists ==
    {[i \in 1..n |-> i] : n \in 0..MaxPairs} \cup {[i \in 1..n |-> 1] : n \in 0..MaxPairs}

\* A run has at most MaxPairs (group, policy) pairs.
Inputs == {in \in GroupLists \X PolicyLists : Len(in[1]) * Len(in[2]) <= MaxPairs}

NoStream == [seeded |-> <<>>]

Init ==
    /\ cancelled = FALSE
    /\ build \in Builds
    /\ pc = "config"
    /\ \E in \in Inputs : provider = in[1] /\ policyPaths = in[2]
    /\ securityGroups = <<>>
    /\ ri = 0
    /\ pi = 0
    /\ evalStatus = SUCCESS
    /\ errAcc = <<>>
    /\ results = <<>>
    /\ assessmentResult = NewCallableAssessmentResult
    /\ streamId = NoStream
    /\ observations = <<>>
    /\ findings = <<>>
    /\ evidences = <<>>
    /\ nextUuid = 0
    /\ now = 0
    /\ startTime = 0
    /\ evalCalls = <<>>
    /\ sinkCalls = <<>>
    /\ obsIds = <<>>
    /\ notSatisfied = FALSE
    /\ occurred = <<>>
    /\ faults = 0
    /\ retStatus = NoStatus
    /\ retErr = <<>>

\* An external call may fail while the failures injected stay within MaxFaults.
MayFail(fail) == fail => faults < MaxFaults

\* `if err != nil { evalStatus = FAILURE; errAcc = errors.Join(errAcc, err) }`
\* (main.go:46-50, 56-60, 78-83, 211-216, 235-239).
Record(fail, err) ==
    /\ evalStatus' = IF fail THEN FAILURE ELSE evalStatus
    /\ errAcc' = IF fail THEN Join(errAcc, err) ELSE errAcc
    /\ occurred' = IF fail THEN Append(occurred, err) ELSE occurred
    /\ faults' = IF fail THEN faults + 1 ELSE faults

\* config.LoadDefaultConfig, main.go:45-52 (part_000:37-44, part_001:39-46).
LoadDefaultConfig ==
    /\ pc = "config"
    /\ \E fail \in BOOLEAN :
          /\ MayFail(fail)
          /\ Record(fail, Err("config", 0, 0))
    /\ pc' = "fetch"
    /\ UNCHANGED <<cancelled, build, provider, policyPaths, securityGroups, ri, pi, results,
                   assessmentResult, streamId, observations, findings, evidences,
                   nextUuid, now, startTime, evalCalls, sinkCalls, obsIds,
                   notSatisfied, retStatus, retErr>>

\* FirstStep with part_000 / part_001 skipping the groups when there is no policy
\* path, as main.go does.
FirstStepSkipsGroups(b, groups) ==
    IF groups = <<>> \/ policyPaths = <<>> THEN "return"
    ELSE IF b = "main" THEN "execute" ELSE "generate"

\* Where Eval stands once the groups are enumerated: the first pair, the first
\* group's submission when there is no policy path, or the return.
FirstStep(b, groups) ==
    IF groups = <<>> THEN "return"
    ELSE IF b = "main" THEN (IF policyPaths = <<>> THEN "return" ELSE "execute")
    ELSE (IF policyPaths = <<>> THEN "send" ELSE "generate")

\* What follows a failed enumeration.  main.go:55-63 and part_001:49-57 go on to
\* range over output.SecurityGroups with output nil; part_000:47-53 breaks out of
\* the loop.
AfterFetchError(b) == IF b = "part_000" THEN "return" ELSE "panic"

\* svc.DescribeSecurityGroups and the start of the loop, main.go:55-75
\* (part_000:47-53 with getSecurityGroups 169-183, part_001:49-57).
DescribeSecurityGroups ==
    /\ pc = "fetch"
    /\ \E fail \in BOOLEAN :
          /\ MayFail(fail)
          /\ Record(fail, Err("fetch", 0, 0))
          /\ securityGroups' = IF fail THEN <<>> ELSE provider
          /\ pc' = IF fail THEN AfterFetchError(build) ELSE FirstStep(build, provider)
          /\ ri' = IF fail \/ provider = <<>> THEN 0 ELSE 1
          /\ pi' = IF fail \/ provider = <<>> \/ policyPaths = <<>> THEN 0 ELSE 1
    /\ UNCHANGED <<cancelled, build, provider, policyPaths, results, assessmentResult, streamId,
                   observations, findings, evidences, nextUuid, now, startTime,
                   evalCalls, sinkCalls, obsIds, notSatisfied, retStatus, retErr>>

\* The pair after (r, p) in main.go's nested loops, main.go:75-76: <<pc, ri, pi>>.
NextPair(r, p) ==
    IF p < Len(policyPaths) THEN <<"execute", r, p + 1>>
    ELSE IF r < Len(securityGroups) THEN <<"execute", r + 1, 1>>
    ELSE <<"return", r, p>>

Continue ==
    /\ pc' = NextPair(ri, pi)[1]
    /\ ri' = NextPair(ri, pi)[2]
    /\ pi' = NextPair(ri, pi)[3]

ObservationUuids(obs) == [i \in 1..Len(obs) |-> obs[i].uuid]

\* time.Now(), read when t was the last reading: the clock is a logical clock,
\* every reading of endTime (main.go:203) is one later than the reading before.
TimeNow(t) == t + 1

\* The pair's evaluation fails, main.go:77-83: the error is recorded and the loop
\* goes on with the next pair.
ExecuteFails ==
    /\ MayFail(TRUE)
    /\ Record(TRUE, Err("eval", ri, pi))
    /\ Continue
    /\ UNCHANGED <<results, assessmentResult, streamId, nextUuid, now, obsIds,
                   notSatisfied>>

\* The pair's evaluation yields rs, main.go:77-223: the assessment result is
\* built from rs, stamped, seeded and logged.
ExecuteYields(rs) ==
    LET sg == securityGroups[ri]
        policyPath == policyPaths[pi]
        built == AddVerdicts(NewCallableAssessmentResult, rs, sg, nextUuid, now, 1)
    IN  /\ nextUuid' = nextUuid + Len(rs)
        /\ obsIds' = obsIds \o ObservationUuids(built.observations)
        /\ notSatisfied' = (notSatisfied \/ \E k \in DOMAIN built.findings :
                                               built.findings[k].status = "not-satisfied")
        /\ \E endTime \in {TimeNow(now)}, fail \in BOOLEAN :
              /\ now' = endTime
              /\ MayFail(fail)
              /\ Record(fail, Err("seed", ri, pi))
              /\ IF fail
                 THEN /\ Continue
                      /\ UNCHANGED <<results, assessmentResult, streamId>>
                 ELSE /\ results' = rs
                      /\ streamId' = SeededUUID(StreamSeed(policyPath, sg))
                      /\ assessmentResult' =
                            AddLogEntry([built EXCEPT !.start = startTime, !.end = endTime],
                                        LogEntry(startTime, endTime))
                      /\ pc' = "publish"
                      /\ UNCHANGED <<ri, pi>>

\* One iteration of the loop over policy paths up to the sink call,
\* main.go:77-223: policyManager.New(...).Execute(...) and what Eval does with
\* what it returns.
Execute ==
    /\ pc = "execute"
    /\ evalCalls' = Append(evalCalls, <<ri, pi>>)
    /\ \/ ExecuteFails
       \/ \E rs \in ResultLists(policyPaths[pi]) : ExecuteYields(rs)
    /\ UNCHANGED <<cancelled, build, provider, policyPaths, securityGroups,
                   observations, findings,
                   evidences, startTime, sinkCalls, retStatus, retErr>>

\* What the history of sink calls keeps of assessmentResult.Result(): its
\* start, its end and its log entries.
Stamps(ar) == [start |-> ar.start, end |-> ar.end, logs |-> ar.logs]

\* One call of the sink as the history records it: batch is the slice handed
\* to CreateEvidence, CreateObservations or CreateFindings.
SinkCall(api, r, p, id, labels, policyPath, ar, batch, ok) ==
    [api |-> api, ri |-> r, pi |-> p, streamId |-> id, labels |-> labels,
     policy |-> policyPath, result |-> Stamps(ar), batch |-> batch, ok |-> ok]

\* apiHelper.CreateResult, main.go:225-240.
CreateResult ==
    /\ pc = "publish"
    /\ \E fail \in BOOLEAN :
          /\ MayFail(fail)
          /\ Record(fail, Err("sink", ri, pi))
          /\ sinkCalls' = Append(sinkCalls,
                SinkCall("CreateResult", ri, pi, streamId,
                         ResultLabels(policyPaths[pi], securityGroups[ri]),
                         policyPaths[pi], assessmentResult, <<>>, ~fail))
    /\ Continue
    /\ results' = <<>>
    /\ assessmentResult' = NewCallableAssessmentResult
    /\ streamId' = NoStream
    /\ UNCHANGED <<cancelled, build, provider, policyPaths, securityGroups,
                   observations, findings,
                   evidences, nextUuid, now, startTime, evalCalls, obsIds, notSatisfied,
                   retStatus, retErr>>

\* ------------------------------------------- part_000 and part_001: per group
\* The labels handed to the policy processor, part_000:55-60 with 139-142 and
\* part_001:62-66 with 139-144.
ProcessorLabels(b, policyPath, sg) ==
    IF b = "part_000"
    THEN [provider |-> "aws", type |-> "security-group", group_id |-> sg,
          _vpc_id |-> <<"vpc", sg>>]
    ELSE [type |-> "aws", service |-> "security-groups", instance_id |-> sg,
          _policy_path |-> policyPath]

\* What processor.GenerateResults yields for a pair: n items carrying the labels
\* it was given; an observation has a fresh id and its finding refers to it.
GeneratedEvidence(r, p, n) ==
    [j \in 1..n |-> [ri |-> r, pi |-> p, n |-> j,
                     labels |-> ProcessorLabels("part_000", policyPaths[p], securityGroups[r])]]

GeneratedObservations(r, p, n, issued) ==
    [j \in 1..n |-> [uuid |-> NewUuid(issued + j - 1), ri |-> r, pi |-> p,
                     labels |-> ProcessorLabels("part_001", policyPaths[p], securityGroups[r])]]

GeneratedFindings(r, p, n, issued) ==
    [j \in 1..n |-> [related |-> <<NewUuid(issued + j - 1)>>, ri |-> r, pi |-> p,
                     labels |-> ProcessorLabels("part_001", policyPaths[p], securityGroups[r])]]

\* How many items processor.GenerateResults may yield for one policy: none,
\* one, or as many as a policy yields verdicts at most.
ItemCounts == {0, 1, MaxVerdicts}

\* `if err != nil { accumulatedErrors = errors.Join(accumulatedErrors, err) }`,
\* part_000:151-153 and part_001:153-155: evalStatus is left as it is.
RecordError(fail, err) ==
    /\ evalStatus' = evalStatus
    /\ errAcc' = IF fail THEN Join(errAcc, err) ELSE errAcc
    /\ occurred' = IF fail THEN Append(occurred, err) ELSE occurred
    /\ faults' = IF fail THEN faults + 1 ELSE faults

\* One iteration of the loop over policy paths, part_000:135-154, part_001:135-156.
GenerateResults ==
    /\ pc = "generate"
    /\ evalCalls' = Append(evalCalls, <<ri, pi>>)
    /\ \E n \in ItemCounts, fail \in BOOLEAN :
          /\ MayFail(fail)
          /\ RecordError(fail, Err("eval", ri, pi))
          /\ IF build = "part_000"
             THEN /\ evidences' = evidences \o GeneratedEvidence(ri, pi, n)
                  /\ UNCHANGED <<observations, findings, nextUuid, obsIds>>
             ELSE /\ observations' = observations \o GeneratedObservations(ri, pi, n, nextUuid)
                  /\ findings' = findings \o GeneratedFindings(ri, pi, n, nextUuid)
                  /\ nextUuid' = nextUuid + n
                  /\ obsIds' = obsIds \o
                        ObservationUuids(GeneratedObservations(ri, pi, n, nextUuid))
                  /\ UNCHANGED evidences
    /\ IF pi < Len(policyPaths)
       THEN pi' = pi + 1 /\ pc' = "generate"
       ELSE pi' = pi /\ pc' = "send"
    /\ UNCHANGED <<cancelled, build, provider, policyPaths, securityGroups, ri, results,
                   assessmentResult, streamId, now, startTime, sinkCalls, notSatisfied,
                   retStatus, retErr>>

\* The next group of the loop over groups, or the return after the last one.
NextGroup ==
    /\ ri' = IF ri < Len(securityGroups) THEN ri + 1 ELSE ri
    /\ pi' = IF policyPaths = <<>> THEN 0 ELSE IF ri < Len(securityGroups) THEN 1 ELSE pi
    /\ pc' = IF ri < Len(securityGroups)
             THEN (IF policyPaths = <<>> THEN "send" ELSE "generate")
             ELSE "return"
    /\ observations' = <<>>
    /\ findings' = <<>>
    /\ evidences' = <<>>

\* `return &proto.EvalResponse{Status: FAILURE}, err`, part_000:158-160 and
\* part_001:160-162, 167-169.
ReturnSinkError(err) ==
    /\ retStatus' = FAILURE
    /\ retErr' = <<err>>
    /\ pc' = "done"
    /\ UNCHANGED <<ri, pi, observations, findings, evidences>>

\* A sink call of part_000 / part_001 and what follows it.
Submit(api, batch, after) ==
    \E fail \in BOOLEAN :
       /\ MayFail(fail)
       /\ faults' = IF fail THEN faults + 1 ELSE faults
       /\ occurred' = IF fail THEN Append(occurred, Err("sink", ri, 0)) ELSE occurred
       /\ sinkCalls' = Append(sinkCalls, SinkCall(api, ri, 0, NoStream, <<>>, 0,
                                              NewCallableAssessmentResult, batch, ~fail))
       /\ IF fail
          THEN ReturnSinkError(Err("sink", ri, 0))
          ELSE after /\ UNCHANGED <<retStatus, retErr>>
       /\ UNCHANGED <<cancelled, build, provider, policyPaths, securityGroups,
                      evalStatus, errAcc,
                      results, assessmentResult, streamId, nextUuid, now, startTime,
                      evalCalls, obsIds, notSatisfied>>

\* apiHelper.CreateEvidence, part_000:156-161.
CreateEvidence ==
    /\ pc = "send"
    /\ build = "part_000"
    /\ Submit("CreateEvidence", evidences, NextGroup)

\* CreateObservations with the error handling of main.go:235-239: a failed
\* submission is recorded and the run goes on to the Findings.
CreateObservationsIgnoringError ==
    /\ pc = "send"
    /\ build = "part_001"
    /\ \E fail \in BOOLEAN :
          /\ MayFail(fail)
          /\ Record(fail, Err("sink", ri, 0))
          /\ sinkCalls' = Append(sinkCalls,
                SinkCall("CreateObservations", ri, 0, NoStream, <<>>, 0,
                         NewCallableAssessmentResult, observations, ~fail))
    /\ pc' = "sendFindings"
    /\ UNCHANGED <<cancelled, build, provider, policyPaths, securityGroups, ri, pi,
                   results, assessmentResult, streamId, observations, findings,
                   evidences, nextUuid, now, startTime, evalCalls, obsIds,
                   notSatisfied, retStatus, retErr>>

\* apiHelper.CreateObservations, part_001:158-163.
CreateObservations ==
    /\ pc = "send"
    /\ build = "part_001"
    /\ Submit("CreateObservations", observations,
              pc' = "sendFindings" /\ UNCHANGED <<ri, pi, observations, findings, evidences>>)

\* apiHelper.CreateFindings, part_001:165-170.
CreateFindings ==
    /\ pc = "sendFindings"
    /\ Submit("CreateFindings", findings, NextGroup)

\* ReturnedStatus with a not-satisfied Finding failing the run.
ReturnedStatusFailsOnViolations == IF notSatisfied THEN FAILURE ELSE evalStatus

\* The status and the error of the final return, main.go:243-245.
ReturnedStatus == evalStatus

ReturnedError == errAcc

\* `return &proto.EvalResponse{Status: evalStatus}, errAcc`, main.go:243-245
\* (part_000:164-166, part_001:173-175).
Return ==
    /\ pc = "return"
    /\ retStatus' = ReturnedStatus
    /\ retErr' = ReturnedError
    /\ pc' = "done"
    /\ UNCHANGED <<cancelled, build, provider, policyPaths, securityGroups, ri, pi, evalStatus,
                   errAcc, results, assessmentResult, streamId, observations, findings,
                   evidences, nextUuid, now, startTime, evalCalls, sinkCalls, obsIds,
                   notSatisfied, occurred, faults>>

Next ==
    \/ LoadDefaultConfig
    \/ DescribeSecurityGroups
    \/ Execute
    \/ CreateResult
    \/ GenerateResults
    \/ CreateEvidence
    \/ CreateObservations
    \/ CreateFindings
    \/ Return

Spec == Init /\ [][Next]_vars

\* The caller of Eval gives up on the run and raises its cancellation signal.
\* Eval has no parameter that carries the signal: it creates its own
\* context.TODO(), which is never cancelled, and no loop of Eval looks at it, so
\* no action of Eval reads cancelled.
Cancel ==
    /\ pc \notin {"done", "panic"}
    /\ ~cancelled
    /\ cancelled' = TRUE
    /\ UNCHANGED <<build, pc, provider, policyPaths, securityGroups, ri, pi, evalStatus,
                   errAcc, results, assessmentResult, streamId, observations, findings,
                   evidences, nextUuid, now, startTime, evalCalls, sinkCalls, obsIds,
                   notSatisfied, occurred, faults, retStatus, retErr>>

\* Eval together with a caller that may cancel at any moment of the run.
NextCancellable ==
    \/ Next
    \/ Cancel

SpecCancellable == Init /\ [][NextCancellable]_vars

\* ================================================================= claims
\* History and position predicates the claims are stated with.
Range(f) == {f[i] : i \in DOMAIN f}

Occurred(kind) == \E i \in DOMAIN occurred : occurred[i].kind = kind

\* The pairs of the run, in iteration order (group-major, policy-minor).
Pairs == {<<r, p>> : r \in DOMAIN securityGroups, p \in DOMAIN policyPaths}

Later(a, b) == b[1] > a[1] \/ (b[1] = a[1] /\ b[2] > a[2])

FailedAt(kind, r, p) == Err(kind, r, p) \in Range(occurred)

\* The pair (r, p), or in part_000 / part_001 the group r, was handed to the sink.
Submitted(r, p) ==
    \E i \in DOMAIN sinkCalls :
       /\ sinkCalls[i].ri = r
       /\ sinkCalls[i].api = "CreateResult" => sinkCalls[i].pi = p

\* C1: when the enumeration of the security groups fails, Eval still returns:
\* it does not crash, it evaluates no policy and submits nothing, and it returns
\* FAILURE with an error that contains the enumeration error.
C1_FetchFailureReturns ==
    Occurred("fetch") =>
       /\ pc \in {"return", "done"}
       /\ evalCalls = <<>>
       /\ sinkCalls = <<>>
       /\ evalStatus = FAILURE
       /\ Err("fetch", 0, 0) \in Range(errAcc)
       /\ pc = "done" => (retStatus = FAILURE /\ Err("fetch", 0, 0) \in Range(retErr))

\* C2: a failed sink submission never ends the run early: when Eval is over,
\* every pair later in the iteration order than a failed submission was
\* evaluated, and was handed to the sink unless its own evaluation or seeding
\* failed.
C2_SinkFailureDoesNotEndRun ==
    (pc = "done") =>
       \A i \in DOMAIN sinkCalls :
          ~sinkCalls[i].ok =>
             \A pair \in Pairs :
                Later(<<sinkCalls[i].ri, sinkCalls[i].pi>>, pair) =>
                   /\ pair \in Range(evalCalls)
                   /\ (~FailedAt("eval", pair[1], pair[2]) /\ ~FailedAt("seed", pair[1], pair[2]))
                         => Submitted(pair[1], pair[2])

\* C3: the returned status is FAILURE exactly when some error occurred during
\* the run, and exactly when the returned error is not nil.
C3_StatusIffError ==
    (pc = "done") =>
       /\ (retStatus = FAILURE) = (occurred # <<>>)
       /\ (retStatus = FAILURE) = (retErr # <<>>)
       /\ (retStatus = SUCCESS) = (retErr = <<>>)

\* C10: the returned error is the join of every error that occurred during the
\* run, in order of occurrence; none is dropped.
C10_ReturnedErrorJoinsAll ==
    (pc = "done") => retErr = occurred

\* The artifacts of seq that carry package pkg in their labels.
ByPackage(seq, pkg) == SelectSeq(seq, LAMBDA x : x.labels.package = pkg)

Positions(seq, x) == {k \in DOMAIN seq : seq[k] = x}

\* C4: for every verdict without violations the pair's assessment result gets
\* exactly one Observation and exactly one Finding; the Finding is satisfied and
\* refers to no Observation.
C4_PassVerdictArtifacts ==
    (pc = "publish") =>
       \A i \in DOMAIN results :
          results[i].violations = <<>> =>
             LET obs == ByPackage(assessmentResult.observations, results[i].package)
                 fs == ByPackage(assessmentResult.findings, results[i].package)
             IN  /\ Len(obs) = 1
                 /\ Len(fs) = 1
                 /\ fs[1].status = "satisfied"
                 /\ fs[1].related = <<>>

C4_Witness ==
    /\ pc = "publish"
    /\ \E i \in DOMAIN results : results[i].violations = <<>>
    /\ \E k \in DOMAIN assessmentResult.findings :
          assessmentResult.findings[k].status = "satisfied"

\* C5: for every verdict with N > 0 violations the pair's assessment result gets
\* exactly one Observation and exactly N not-satisfied Findings, one per
\* violation in violation order, each referring to that Observation's id; the
\* Observation is added before its Findings; and no two Observations of the run
\* share an id.
C5_FailVerdictArtifacts ==
    /\ \A i, j \in DOMAIN obsIds : obsIds[i] = obsIds[j] => i = j
    /\ (pc = "publish") =>
          \A i \in DOMAIN results :
             results[i].violations # <<>> =>
                LET v == results[i]
                    obs == ByPackage(assessmentResult.observations, v.package)
                    fs == ByPackage(assessmentResult.findings, v.package)
                IN  /\ Len(obs) = 1
                    /\ obs[1].uuid \in Range(obsIds)
                    /\ Len(fs) = Len(v.violations)
                    /\ \A k \in DOMAIN fs :
                          /\ fs[k].status = "not-satisfied"
                          /\ fs[k].title = v.violations[k].title
                          /\ fs[k].description = v.violations[k].description
                          /\ fs[k].related = <<obs[1].uuid>>
                    /\ Cardinality(Positions(assessmentResult.order,
                                             <<"finding", <<obs[1].uuid>>>>)) = Len(v.violations)
                    /\ \A a \in Positions(assessmentResult.order, <<"observation", obs[1].uuid>>),
                          b \in Positions(assessmentResult.order, <<"finding", <<obs[1].uuid>>>>) :
                          a < b

C5_Witness ==
    /\ pc = "publish"
    /\ Len(obsIds) >= 2
    /\ \E i \in DOMAIN results : Len(results[i].violations) >= 2
    /\ \E k \in DOMAIN assessmentResult.findings :
          assessmentResult.findings[k].status = "not-satisfied"

RECURSIVE RiskEntriesFrom(_, _)
RiskEntriesFrom(rs, i) ==
    IF i > Len(rs) THEN <<>> ELSE rs[i].risks \o RiskEntriesFrom(rs, i + 1)

\* C6: whatever the violations of the verdicts, the pair's assessment result
\* holds exactly one Risk per risk entry, in entry order, with the entry's title,
\* description and statement and with one link per link of the entry, in order,
\* url as href and text as text.
C6_RisksOneToOne ==
    (pc = "publish") =>
       LET entries == RiskEntriesFrom(results, 1)
           risks == assessmentResult.risks
       IN  /\ Len(risks) = Len(entries)
           /\ \A k \in DOMAIN risks :
                 /\ risks[k].title = entries[k].title
                 /\ risks[k].description = entries[k].description
                 /\ risks[k].statement = entries[k].statement
                 /\ Len(risks[k].links) = Len(entries[k].links)
                 /\ \A j \in DOMAIN risks[k].links :
                       /\ risks[k].links[j].href = entries[k].links[j].URL
                       /\ risks[k].links[j].text = entries[k].links[j].Text

C6_Witness ==
    /\ pc = "publish"
    /\ \E i \in DOMAIN results : results[i].violations # <<>> /\ Len(results[i].risks) >= 2
    /\ \E i \in DOMAIN results : results[i].violations = <<>>
    /\ \E k \in DOMAIN assessmentResult.risks : Len(assessmentResult.risks[k].links) >= 2

ResultCalls == {i \in DOMAIN sinkCalls : sinkCalls[i].api = "CreateResult"}

\* C7: the stream identifier handed to the sink is the identifier seeded from
\* {type, policy path, security-group id} and nothing else: two submissions get
\* the same identifier exactly when they agree on policy path and group id.
C7_StreamIdDeterministic ==
    /\ \A i \in ResultCalls :
          sinkCalls[i].streamId =
             [seeded |-> [type |-> "aws", _policy |-> sinkCalls[i].policy,
                          security_group_id |-> securityGroups[sinkCalls[i].ri]]]
    /\ \A i, j \in ResultCalls :
          (sinkCalls[i].streamId = sinkCalls[j].streamId) =
             (/\ sinkCalls[i].policy = sinkCalls[j].policy
              /\ securityGroups[sinkCalls[i].ri] = securityGroups[sinkCalls[j].ri])

C7_Witness ==
    /\ Len(obsIds) >= 2
    /\ \E i, j \in ResultCalls :
          /\ i # j
          /\ sinkCalls[i].policy = sinkCalls[j].policy
          /\ sinkCalls[i].ri = sinkCalls[j].ri
    /\ \E i, j \in ResultCalls : sinkCalls[i].ri # sinkCalls[j].ri

AllAccepted == \A i \in DOMAIN sinkCalls : sinkCalls[i].ok

NoArtifacts ==
    /\ obsIds = <<>>
    /\ assessmentResult = NewCallableAssessmentResult
    /\ observations = <<>>
    /\ findings = <<>>
    /\ evidences = <<>>

\* C8, as stated: with an empty policy list and configuration load and
\* enumeration succeeding, the run emits no artifact, never invokes the
\* evaluator and returns SUCCESS with a nil error.
C8_EmptyPolicyListSucceeds ==
    (policyPaths = <<>> /\ ~Occurred("config") /\ ~Occurred("fetch")) =>
       /\ evalCalls = <<>>
       /\ NoArtifacts
       /\ pc = "done" => (retStatus = SUCCESS /\ retErr = <<>>)

\* C8, amended: with an empty policy list and configuration load and
\* enumeration succeeding, the run emits no artifact and never invokes the
\* evaluator; main.go calls the sink not at all, part_000 and part_001 hand one
\* empty batch per group to the sink; Eval returns SUCCESS with a nil error if no
\* such submission fails, and FAILURE with the sink's error otherwise.
C8_EmptyPolicyListAmended ==
    (policyPaths = <<>> /\ ~Occurred("config") /\ ~Occurred("fetch")) =>
       /\ evalCalls = <<>>
       /\ NoArtifacts
       /\ build = "main" => sinkCalls = <<>>
       /\ pc = "done" =>
             IF AllAccepted
             THEN /\ retStatus = SUCCESS
                  /\ retErr = <<>>
                  /\ build = "part_000" => Len(sinkCalls) = Len(securityGroups)
                  /\ build = "part_001" => Len(sinkCalls) = 2 * Len(securityGroups)
             ELSE /\ retStatus = FAILURE
                  /\ retErr = <<occurred[Len(occurred)]>>
                  /\ retErr[1].kind = "sink"

C8_Witness ==
    /\ policyPaths = <<>>
    /\ Len(securityGroups) >= 2
    /\ pc = "done"
    /\ retStatus = SUCCESS
    /\ Len(sinkCalls) >= 2

\* C9: the run status does not depend on the verdicts: while no configuration,
\* fetch, evaluation, seeding or sink call has failed the status stays SUCCESS
\* and the error nil, and Eval returns SUCCESS, whatever violations and risks
\* the verdicts carry.
C9_StatusIndependentOfVerdicts ==
    (occurred = <<>>) =>
       /\ evalStatus = SUCCESS
       /\ errAcc = <<>>
       /\ pc = "done" => (retStatus = SUCCESS /\ retErr = <<>>)

C9_Witness ==
    /\ pc = "done"
    /\ occurred = <<>>
    /\ notSatisfied
    /\ retStatus = SUCCESS

\* The pairs of the run as the nested loops visit them: group-major,
\* policy-minor.
PairSeq ==
    LET n == Len(policyPaths)
    IN  [k \in 1..(Len(securityGroups) * n) |-> <<((k - 1) \div n) + 1, ((k - 1) % n) + 1>>]

IsPrefix(s, t) == Len(s) <= Len(t) /\ \A k \in DOMAIN s : s[k] = t[k]

\* C11: when the enumeration yields the groups, the evaluator is invoked
\* exactly once for each (group, policy) pair, in iteration order: a failed
\* evaluation is joined to the accumulated error, is never retried, and the run
\* goes on to the next pair, so that when Eval is over every pair was evaluated.
C11_EveryPairEvaluatedOnce ==
    /\ IsPrefix(evalCalls, PairSeq)
    /\ \A pair \in Range(evalCalls) :
          FailedAt("eval", pair[1], pair[2]) =>
             Cardinality(Positions(occurred, Err("eval", pair[1], pair[2]))) = 1
    /\ (pc = "done" /\ ~Occurred("fetch")) => evalCalls = PairSeq

SinkCallsOf(api, r) == {i \in DOMAIN sinkCalls : sinkCalls[i].api = api /\ sinkCalls[i].ri = r}

\* C12: every pair whose evaluation returned without error reaches a sink
\* submission attempt. Nothing but a sink failure of the pair itself keeps
\* artifacts of the pair from the sink, and such a failure only cancels the
\* remaining publish steps of that pair: in part_001 the Findings of a group are
\* withheld only when the Observations submission of that group failed.
C12_OnlyOwnSinkFailureSuppresses ==
    (pc = "done" /\ ~Occurred("fetch")) =>
       /\ \A pair \in Pairs :
             ~FailedAt("eval", pair[1], pair[2]) => Submitted(pair[1], pair[2])
       /\ build = "part_001" =>
             \A r \in DOMAIN securityGroups :
                \/ SinkCallsOf("CreateFindings", r) # {}
                \/ \E i \in SinkCallsOf("CreateObservations", r) : ~sinkCalls[i].ok

\* C13: Eval observes the cancellation signal of its caller between iterations:
\* once the signal is raised no further policy evaluation is started, and the
\* run comes to its end.
C13_CancellationStopsEvaluation ==
    [][cancelled => evalCalls' = evalCalls]_vars

\* C14, as stated: for every pair whose evaluation succeeded exactly one
\* Observation is emitted, whatever the evaluator returned, an empty list of
\* verdicts or more than one verdict included.
C14_OneObservationPerPair ==
    (pc = "publish") => Len(assessmentResult.observations) = 1

\* C14, amended: for every pair whose evaluation succeeded exactly one
\* Observation is emitted per verdict the evaluator returned, in verdict order:
\* none for an empty list of verdicts, k for k verdicts, each with the package
\* and the number of violations of its verdict and with an id of its own.
C14_OneObservationPerVerdict ==
    (pc = "publish") =>
       LET obs == assessmentResult.observations
       IN  /\ Len(obs) = Len(results)
           /\ \A i \in DOMAIN obs :
                 /\ obs[i].labels.package = results[i].package
                 /\ obs[i].count = Len(results[i].violations)
           /\ \A i, j \in DOMAIN obs : obs[i].uuid = obs[j].uuid => i = j

C14_Witness ==
    /\ pc = "publish"
    /\ Len(results) = 2
    /\ Len(assessmentResult.observations) = 2
    /\ results[1].violations = <<>>
    /\ results[2].violations # <<>>

Packages(rs) == {rs[i].package : i \in DOMAIN rs}

\* The identifiers uuid.New() handed out while the verdicts rs were processed.
IssuedFor(rs) == (nextUuid - Len(rs) + 1)..nextUuid

\* C15: in main.go every pair gets an assessment result of its own, handed to
\* the sink at most once. The result about to be submitted holds exactly the
\* Observations, Findings and Risks made from the verdicts of its pair, in
\* verdict order, and nothing made for another group, another policy or an
\* earlier pair.
C15_ResultHoldsOwnArtifactsOnly ==
    /\ \A i, j \in ResultCalls :
          (sinkCalls[i].ri = sinkCalls[j].ri /\ sinkCalls[i].pi = sinkCalls[j].pi) => i = j
    /\ (pc = "publish") =>
          LET obs == assessmentResult.observations
              fs == assessmentResult.findings
          IN  /\ ~Submitted(ri, pi)
              /\ \A k \in DOMAIN obs :
                    /\ obs[k].labels.security_group_id = securityGroups[ri]
                    /\ obs[k].labels.package[1] = policyPaths[pi]
                    /\ obs[k].labels.package \in Packages(results)
                    /\ obs[k].uuid \in IssuedFor(results)
              /\ \A k \in DOMAIN fs :
                    /\ fs[k].labels.security_group_id = securityGroups[ri]
                    /\ fs[k].labels.package[1] = policyPaths[pi]
                    /\ fs[k].labels.package \in Packages(results)
                    /\ Range(fs[k].related) \subseteq IssuedFor(results)
              /\ \A i \in DOMAIN results :
                    /\ Len(ByPackage(obs, results[i].package)) = 1
                    /\ Len(ByPackage(fs, results[i].package)) =
                          (IF results[i].violations = <<>> THEN 1 ELSE Len(results[i].violations))
              /\ \A a, b \in DOMAIN obs :
                    a < b => obs[a].labels.package[2] < obs[b].labels.package[2]
              /\ \A a, b \in DOMAIN fs :
                    a < b => fs[a].labels.package[2] <= fs[b].labels.package[2]
              /\ Len(assessmentResult.risks) = Len(RiskEntriesFrom(results, 1))

C15_Witness ==
    /\ pc = "publish"
    /\ ri = 2
    /\ pi = 2
    /\ policyPaths[1] # policyPaths[2]
    /\ Len(results) = 2
    /\ Len(assessmentResult.findings) >= 2
    /\ assessmentResult.risks # <<>>
    /\ \E i \in ResultCalls : sinkCalls[i].ri = 1 /\ sinkCalls[i].pi = 1

\* The pairs before pair (r, p) in iteration order.
PairsBefore(r, p) == {pair \in Pairs : Later(pair, <<r, p>>)}

SubmittedPairs == {<<sinkCalls[i].ri, sinkCalls[i].pi>> : i \in ResultCalls}

\* C16: a run of main.go goes INIT, FETCH_RESOURCES, then pair by pair
\* EVALUATE, ASSEMBLE, AGGREGATE, PUBLISH, then DONE, strictly in sequence:
\* no evaluation before the enumeration is complete, pairs in group-major,
\* policy-minor order, the submission of a pair after its evaluation and before
\* the evaluation of the next pair, and whatever the lists and the failures the
\* run does not stop before DONE.
C16_SequentialStateMachine ==
    (build = "main") =>
       /\ pc \in {"config", "fetch"} =>
             (securityGroups = <<>> /\ evalCalls = <<>> /\ sinkCalls = <<>>)
       /\ IsPrefix(evalCalls, PairSeq)
       /\ SubmittedPairs \subseteq Range(evalCalls)
       /\ pc = "execute" =>
             /\ Range(evalCalls) = PairsBefore(ri, pi)
             /\ \A pair \in PairsBefore(ri, pi) :
                   (~FailedAt("eval", pair[1], pair[2]) /\ ~FailedAt("seed", pair[1], pair[2]))
                      => pair \in SubmittedPairs
       /\ pc = "publish" =>
             /\ Range(evalCalls) = PairsBefore(ri, pi) \cup {<<ri, pi>>}
             /\ <<ri, pi>> \notin SubmittedPairs
       /\ pc \in {"return", "done"} => Range(evalCalls) = Pairs
       /\ pc = "done" \/ ENABLED Next

\* C17: the Observation and all Findings of a verdict carry one and the same
\* label set, with the keys package, type, service and security_group_id; its
\* security_group_id is the id of the pair's group and its package the package
\* of the verdict. The label set handed to the sink for the pair names the same
\* group id and the pair's policy path.
C17_LabelsConsistent ==
    /\ (pc = "publish") =>
          \A i \in DOMAIN results :
             LET obs == ByPackage(assessmentResult.observations, results[i].package)
                 fs == ByPackage(assessmentResult.findings, results[i].package)
                 labelSets == {obs[k].labels : k \in DOMAIN obs}
                                 \cup {fs[k].labels : k \in DOMAIN fs}
             IN  /\ Cardinality(labelSets) = 1
                 /\ \A l \in labelSets :
                       /\ {"package", "type", "service", "security_group_id"} \subseteq DOMAIN l
                       /\ l.security_group_id = securityGroups[ri]
                       /\ l.security_group_id =
                             ResultLabels(policyPaths[pi], securityGroups[ri]).security_group_id
                       /\ l.package = results[i].package
                       /\ l.type = "aws"
                       /\ l.service = "security-groups"
    /\ \A i \in ResultCalls :
          /\ sinkCalls[i].labels.security_group_id = securityGroups[sinkCalls[i].ri]
          /\ sinkCalls[i].labels._policy = policyPaths[sinkCalls[i].pi]
          /\ sinkCalls[i].policy = policyPaths[sinkCalls[i].pi]

C17_Witness ==
    /\ pc = "publish"
    /\ ri = 2
    /\ \E i \in DOMAIN results : Len(results[i].violations) >= 2
    /\ \E i \in DOMAIN results : results[i].violations = <<>>
    /\ \E i \in ResultCalls :
          sinkCalls[i].ri = 1 /\ sinkCalls[i].labels.security_group_id = securityGroups[1]

\* C18: every assessment result handed to the sink starts at the start time of
\* the run and ends at the time read last before the handoff: start <= end, one
\* start for all results of the run, ends that never decrease from one
\* submission to the next; it holds exactly one log entry, with the start and
\* the end of the result. A pair whose evaluation failed gets neither a log
\* entry nor a submission.
C18_TimestampsAndLogEntry ==
    (build = "main") =>
       /\ \A i \in ResultCalls :
             LET r == sinkCalls[i].result
             IN  /\ r.start = startTime
                 /\ r.start <= r.end
                 /\ r.end <= now
                 /\ Len(r.logs) = 1
                 /\ r.logs[1].start = r.start
                 /\ r.logs[1].end = r.end
       /\ \A i, j \in ResultCalls : i < j => sinkCalls[i].result.end <= sinkCalls[j].result.end
       /\ pc = "publish" =>
             /\ assessmentResult.end = now
             /\ assessmentResult.start = startTime
             /\ Len(assessmentResult.logs) = 1
             /\ assessmentResult.logs[1].start = startTime
             /\ assessmentResult.logs[1].end = now
       /\ pc # "publish" => assessmentResult.logs = <<>>
       /\ \A pair \in Pairs : FailedAt("eval", pair[1], pair[2]) => ~Submitted(pair[1], pair[2])

C18_Witness ==
    /\ build = "main"
    /\ \E i, j \in ResultCalls : i < j /\ sinkCalls[i].result.end < sinkCalls[j].result.end
    /\ \E pair \in Pairs : FailedAt("eval", pair[1], pair[2])
    /\ pc = "done"

\* The ids of the Observations the sink accepted before its i-th call.
AcceptedObservations(i) ==
    UNION {Range(ObservationUuids(sinkCalls[j].batch)) :
              j \in {k \in 1..(i - 1) : sinkCalls[k].api = "CreateObservations" /\ sinkCalls[k].ok}}

\* C19: in part_001 the Findings of a group are handed to the sink only right
\* after the sink accepted the Observations of the same group, so every Finding
\* handed to the sink refers only to Observations the sink accepted before;
\* when the submission of the Observations fails, no Finding of that group is
\* submitted.
C19_FindingsAfterAcceptedObservations ==
    (build = "part_001") =>
       \A i \in DOMAIN sinkCalls :
          /\ sinkCalls[i].api = "CreateFindings" =>
                /\ i > 1
                /\ sinkCalls[i - 1].api = "CreateObservations"
                /\ sinkCalls[i - 1].ri = sinkCalls[i].ri
                /\ sinkCalls[i - 1].ok
                /\ \A k \in DOMAIN sinkCalls[i].batch :
                      /\ sinkCalls[i].batch[k].ri = sinkCalls[i].ri
                      /\ Range(sinkCalls[i].batch[k].related) \subseteq AcceptedObservations(i)
          /\ (sinkCalls[i].api = "CreateObservations" /\ ~sinkCalls[i].ok) =>
                /\ i = Len(sinkCalls)
                /\ SinkCallsOf("CreateFindings", sinkCalls[i].ri) = {}
                /\ pc = "done"

C19_Witness ==
    /\ build = "part_001"
    /\ pc = "done"
    /\ \E i \in SinkCallsOf("CreateFindings", 1) : Len(sinkCalls[i].batch) >= 2 /\ sinkCalls[i].ok
    /\ \E i \in SinkCallsOf("CreateObservations", 2) : ~sinkCalls[i].ok /\ sinkCalls[i].batch # <<>>

\* Evidence a comes before evidence b in the concatenation in policy order.
EvidenceBefore(a, b) == a.pi < b.pi \/ (a.pi = b.pi /\ a.n < b.n)

\* C20: in part_000 the sink is called exactly once for every enumerated
\* group, after all policies of the group were processed, with the evidence the
\* policies of that group returned, concatenated in policy order, evidence that
\* came with an evaluation error included; no evidence of one group is in the
\* submission of another.
C20_OneSubmissionPerResource ==
    (build = "part_000") =>
       /\ \A i \in DOMAIN sinkCalls :
             LET call == sinkCalls[i]
             IN  /\ call.api = "CreateEvidence"
                 /\ \A p \in DOMAIN policyPaths : <<call.ri, p>> \in Range(evalCalls)
                 /\ \A k \in DOMAIN call.batch :
                       /\ call.batch[k].ri = call.ri
                       /\ call.batch[k].labels.group_id = securityGroups[call.ri]
                 /\ \A a, b \in DOMAIN call.batch :
                       a < b => EvidenceBefore(call.batch[a], call.batch[b])
       /\ \A r \in DOMAIN securityGroups : Cardinality(SinkCallsOf("CreateEvidence", r)) <= 1
       /\ pc = "done" =>
             \A r \in DOMAIN securityGroups : Cardinality(SinkCallsOf("CreateEvidence", r)) = 1

====
